---- MODULE Spec2Model ----
(***************************************************************************)
(* tracing-ndjson: newline-delimited JSON formatting of tracing events.    *)
(*                                                                         *)
(* The repository holds two formatting engines, and the model runs both    *)
(* on the same events and the same scope chain:                            *)
(*   - the formatter engine, JsonEventFormatter::format_event with         *)
(*     FieldsFormatter (src/src/formatter.rs): a streaming serde_json map  *)
(*     serializer; every scope keeps its fields as JSON text               *)
(*     (FormattedFields);                                                  *)
(*   - the layer engine, JsonFormattingLayer (src/src/layer.rs): a HashMap *)
(*     root; every scope keeps its fields as a JsonStorage map.            *)
(* Text is modelled as a sequence of tokens, a JSON value as a record      *)
(* [ty, val].                                                              *)
(***************************************************************************)
EXTENDS Integers, Sequences, FiniteSets, TLC

VARIABLES
    phase,      \* "builder": the Builder is being configured; "active": layer() was called
    config,     \* the configuration (the builder's, then the engines')
    calls,      \* history of the builder's setter calls, <<option, value>> each
    spans,      \* the scope chain, root first: [storage, formatted, writes] per span
    nrecords,   \* number of on_record calls so far
    event,      \* the event of the last handler call (NoEvent if it was no event)
    fmt,        \* formatter engine, last call: [result, written]
    lay,        \* layer engine, last call: [result, inserts, root, printed]
    vis,        \* a Visitor of visitor.rs over a map serializer, with its history
    conc        \* one span's store, its lock, and the calls running on it concurrently

vars == <<phase, config, calls, spans, nrecords, event, fmt, lay, vis, conc>>

-----------------------------------------------------------------------------
(* Bounds of the model *)

MaxSetterCalls == 2
MaxDepth == 2
MaxRecords == 1

-----------------------------------------------------------------------------
(* JSON values and text tokens *)

Str(s) == [ty |-> "string", val |-> s]
Num(n) == [ty |-> "number", val |-> n]
Obj(m) == [ty |-> "object", val |-> m]
Arr(a) == [ty |-> "array", val |-> a]

LBrace == [t |-> "{"]
RBrace == [t |-> "}"]
Comma == [t |-> ","]
Space == [t |-> " "]
Newline == [t |-> "\n"]
Entry(k, v) == [t |-> "entry", k |-> k, v |-> v]

EmptyMap == [k \in {} |-> Num(0)]

\* HashMap::insert / serde_json::Map::insert: the later write replaces the earlier one
MapInsert(m, k, v) == [n \in DOMAIN m \cup {k} |-> IF n = k THEN v ELSE m[n]]

\* A run of inserts, in order
RECURSIVE InsertAll(_, _)
InsertAll(m, entries) ==
    IF entries = <<>> THEN m
    ELSE InsertAll(MapInsert(m, Head(entries).k, Head(entries).v), Tail(entries))

-----------------------------------------------------------------------------
(* Configuration *)

LevelNames == {"level", "severity"}
MessageNames == {"message", "msg"}
TargetNames == {"target", "logger"}
TimestampNames == {"timestamp", "ts"}
TimestampFormats == {"Unix", "UnixMillis", "Rfc3339", "Rfc3339Nanos", "Custom"}
Casings == {"Lowercase", "Uppercase"}

OptionValues ==
    [ level_name |-> LevelNames,
      level_value_casing |-> Casings,
      message_name |-> MessageNames,
      target_name |-> TargetNames,
      timestamp_name |-> TimestampNames,
      timestamp_format |-> TimestampFormats,
      line_numbers |-> BOOLEAN,
      file_names |-> BOOLEAN,
      flatten_fields |-> BOOLEAN,
      flatten_spans |-> BOOLEAN ]

Options == DOMAIN OptionValues

\* impl Default for JsonEventFormatter: the options the formatter engine has
JsonEventFormatterDefault ==
    [ level_name |-> "level",
      message_name |-> "message",
      target_name |-> "target",
      timestamp_name |-> "timestamp",
      timestamp_format |-> "Rfc3339",
      flatten_fields |-> TRUE ]

\* Casing::default() and TimestampFormat::default()
CasingDefault == "Lowercase"
TimestampFormatDefault == "Rfc3339"

\* Faulty variant: the default nests the spans
DefaultConfig_nested ==
    [ level_name |-> "level",
      level_value_casing |-> "Lowercase",
      message_name |-> "message",
      target_name |-> "target",
      timestamp_name |-> "timestamp",
      timestamp_format |-> "Rfc3339",
      line_numbers |-> FALSE,
      file_names |-> FALSE,
      flatten_fields |-> TRUE,
      flatten_spans |-> FALSE ]

\* impl Default for JsonFormattingLayer
DefaultConfig ==
    [ level_name |-> "level",
      level_value_casing |-> CasingDefault,
      message_name |-> "message",
      target_name |-> "target",
      timestamp_name |-> "timestamp",
      timestamp_format |-> TimestampFormatDefault,
      line_numbers |-> FALSE,
      file_names |-> FALSE,
      flatten_fields |-> TRUE,
      flatten_spans |-> TRUE ]

\* Faulty variant: the setter rebuilds the target name from its default
with_level_name_reset(c, v) == [c EXCEPT !.level_name = v, !.target_name = "target"]
with_level_name(c, v) == [c EXCEPT !.level_name = v]
with_message_name(c, v) == [c EXCEPT !.message_name = v]
with_target_name(c, v) == [c EXCEPT !.target_name = v]
with_timestamp_name(c, v) == [c EXCEPT !.timestamp_name = v]
with_timestamp_format(c, v) == [c EXCEPT !.timestamp_format = v]
with_flatten_fields(c, v) == [c EXCEPT !.flatten_fields = v]
with_level_value_casing(c, v) == [c EXCEPT !.level_value_casing = v]
with_line_numbers(c, v) == [c EXCEPT !.line_numbers = v]
with_file_names(c, v) == [c EXCEPT !.file_names = v]
with_flatten_spans(c, v) == [c EXCEPT !.flatten_spans = v]

-----------------------------------------------------------------------------
(* serde_json: writing a map, and reading text back *)

\* The order in which a HashMap or a serde_json::Map yields its keys. The order
\* is unspecified; the keys of one map are distinct, so it decides the order of
\* the members in the text and nothing else.
RECURSIVE IterOrder(_)
IterOrder(S) ==
    IF S = {} THEN <<>>
    ELSE LET k == CHOOSE x \in S : TRUE IN <<k>> \o IterOrder(S \ {k})

\* Serializer::serialize_map: the opening brace; no entry written yet
SerializeMap == [buf |-> <<LBrace>>, first |-> TRUE]

\* Faulty variant: the comma is written before the first entry too
SerializeEntry_comma(ser, k, v) ==
    [buf |-> ser.buf \o <<Comma, Entry(k, v)>>, first |-> FALSE]

\* SerializeMap::serialize_entry on the streaming serializer: a comma before
\* every entry but the first, then the entry. It keeps no record of the keys
\* already written.
SerializeEntry(ser, k, v) ==
    [buf |-> IF ser.first THEN Append(ser.buf, Entry(k, v))
             ELSE ser.buf \o <<Comma, Entry(k, v)>>,
     first |-> FALSE]

\* SerializeMap::end: the closing brace
SerializeEnd(ser) == Append(ser.buf, RBrace)

RECURSIVE SerializeEntries(_, _)
SerializeEntries(ser, entries) ==
    IF entries = <<>> THEN ser
    ELSE SerializeEntries(SerializeEntry(ser, Head(entries).k, Head(entries).v),
                          Tail(entries))

\* serde_json::to_string of a map with distinct keys
ToStringMap(m) ==
    LET keys == IterOrder(DOMAIN m)
    IN SerializeEnd(SerializeEntries(SerializeMap,
                       [i \in 1..Len(keys) |-> [k |-> keys[i], v |-> m[keys[i]]]]))

IsWhitespace(tok) == tok.t \in {" ", "\n"}

ParseError == [ok |-> FALSE, obj |-> EmptyMap, next |-> 0]

\* The members of an object from position i on; expect is "first" (a member or
\* the closing brace), "member" (after a comma) or "sep" (after a member).
\* A repeated key keeps its last value.
RECURSIVE ParseMembers(_, _, _, _)
ParseMembers(toks, i, obj, expect) ==
    IF i > Len(toks) THEN ParseError
    ELSE LET tok == toks[i] IN
         IF IsWhitespace(tok) THEN ParseMembers(toks, i + 1, obj, expect)
         ELSE IF tok.t = "}" /\ expect \in {"first", "sep"}
              THEN [ok |-> TRUE, obj |-> obj, next |-> i + 1]
         ELSE IF tok.t = "entry" /\ expect \in {"first", "member"}
              THEN ParseMembers(toks, i + 1, MapInsert(obj, tok.k, tok.v), "sep")
         ELSE IF tok.t = "," /\ expect = "sep"
              THEN ParseMembers(toks, i + 1, obj, "member")
         ELSE ParseError

RECURSIVE ParseObject(_, _)
ParseObject(toks, i) ==
    IF i > Len(toks) THEN ParseError
    ELSE IF IsWhitespace(toks[i]) THEN ParseObject(toks, i + 1)
    ELSE IF toks[i].t = "{" THEN ParseMembers(toks, i + 1, EmptyMap, "first")
    ELSE ParseError

\* serde_json::from_str::<Value>(text).ok(), kept when it is an object: one
\* value, then nothing but whitespace to the end of the text
FromStr(toks) ==
    LET r == ParseObject(toks, 1)
    IN IF r.ok /\ \A j \in r.next..Len(toks) : IsWhitespace(toks[j])
       THEN [ok |-> TRUE, obj |-> r.obj]
       ELSE [ok |-> FALSE, obj |-> EmptyMap]

-----------------------------------------------------------------------------
(* Inputs: callsite metadata, field sets, the clock *)

None == [some |-> FALSE, val |-> Str("")]
Some(v) == [some |-> TRUE, val |-> v]

\* The callsites events come from: level, target, and the optional source
\* file and line of tracing_core::Metadata
Callsites ==
    { [level |-> "INFO", target |-> "app", file |-> Some(Str("main.rs")), line |-> Some(Num(17))],
      [level |-> "ERROR", target |-> "app::db", file |-> None, line |-> None],
      [level |-> "WARN", target |-> "app", file |-> Some(Str("db.rs")), line |-> None],
      [level |-> "DEBUG", target |-> "app::db", file |-> None, line |-> Some(Num(22))] }

\* Event::parent(): the explicit parent of an event, the position in the
\* chain of open spans of the span it names; none for a contextual event
NoParent == [some |-> FALSE, val |-> 0]
Parent(i) == [some |-> TRUE, val |-> i]

\* Field names of events and spans, in the order a callsite declares them
FieldOrder == <<"message", "x">>
AttrNames == {FieldOrder[i] : i \in DOMAIN FieldOrder}

\* The fields a call records: the names in callsite order, every one with the
\* value v (each call records a value of its own, so that the output shows
\* which call a value came from)
RECURSIVE FieldsFrom(_, _, _)
FieldsFrom(order, names, v) ==
    IF order = <<>> THEN <<>>
    ELSE (IF Head(order) \in names THEN <<[k |-> Head(order), v |-> v]>> ELSE <<>>)
         \o FieldsFrom(Tail(order), names, v)

Fields(names, v) == FieldsFrom(FieldOrder, names, v)

EventValue == Num(0)
SpanValue(depth) == Num(100 * depth)
RecordValue(depth, n) == Num(100 * depth + n)

\* chrono::Utc::now(): the instant of the call, in the renderings the
\* timestamp formats need
Now ==
    [ secs |-> 1000,
      millis |-> 1000814,
      rfc3339 |-> "1970-01-01T00:16:40Z",
      rfc3339nanos |-> "1970-01-01T00:16:40.814000000Z",
      custom |-> "1970-01-01" ]

Unreachable == [panic |-> TRUE, value |-> 0]

format_string(tf, now) ==
    CASE tf = "Unix" -> ToString(now.secs)
      [] tf = "UnixMillis" -> ToString(now.millis)
      [] tf = "Rfc3339" -> now.rfc3339
      [] tf = "Rfc3339Nanos" -> now.rfc3339nanos
      [] tf = "Custom" -> now.custom

format_number(tf, now) ==
    CASE tf = "Unix" -> [panic |-> FALSE, value |-> now.secs]
      [] tf = "UnixMillis" -> [panic |-> FALSE, value |-> now.millis]
      [] tf = "Rfc3339" -> Unreachable
      [] tf = "Rfc3339Nanos" -> Unreachable
      [] tf = "Custom" -> Unreachable

to_lowercase(s) ==
    CASE s = "TRACE" -> "trace" [] s = "DEBUG" -> "debug" [] s = "INFO" -> "info"
      [] s = "WARN" -> "warn" [] s = "ERROR" -> "error"

to_uppercase(s) ==
    CASE s = "TRACE" -> "TRACE" [] s = "DEBUG" -> "DEBUG" [] s = "INFO" -> "INFO"
      [] s = "WARN" -> "WARN" [] s = "ERROR" -> "ERROR"

-----------------------------------------------------------------------------
(* The per-scope stores *)

\* JsonStorage, the layer engine's store: the Visit callbacks insert every
\* field into its map of values
JsonStorageRecord(values, fields) == InsertAll(values, fields)

\* FieldsFormatter::format_fields: the fields as one JSON object, written
\* to the writer after what it already holds; SerdeMapVisitor writes the
\* entries under the names of the fields
format_fields(text, fields) ==
    text \o SerializeEnd(SerializeEntries(SerializeMap, fields))

\* FormatFields::add_fields as FieldsFormatter has it (it defines format_fields
\* alone): a space after the text the store holds, then format_fields
add_fields(current, fields) ==
    format_fields(IF current # <<>> THEN Append(current, Space) ELSE current, fields)

\* A span as it opens: the layer engine's store, the formatter engine's text,
\* and (history) the fields written to the span so far, in order
\* cached: the stores are in the span's extensions
NewSpan(fields) ==
    [storage |-> JsonStorageRecord(EmptyMap, fields),
     formatted |-> format_fields(<<>>, fields),
     writes |-> fields,
     cached |-> TRUE]

RecordSpan(span, fields) ==
    [storage |-> JsonStorageRecord(span.storage, fields),
     formatted |-> add_fields(span.formatted, fields),
     writes |-> span.writes \o fields,
     cached |-> span.cached]

\* A span whose extensions hold neither store: on_new_span did not run for
\* it, or format_fields failed when it opened
NewSpanNoStore(fields) ==
    [storage |-> EmptyMap,
     formatted |-> <<>>,
     writes |-> fields,
     cached |-> FALSE]

\* The faults the environment can raise in a call: none; in the formatter
\* engine a serializer call (serialize_map, serialize_entry or the event
\* visitor), end, from_utf8, write_str (nothing taken, or a part of the text
\* taken) and write_char; in the layer engine to_string and println!
NoFault == "none"
FormatterFaults ==
    {"serialize_entry", "end", "from_utf8", "write_str", "write_str_partial", "write_char"}
LayerFaults == {"to_string", "println"}

-----------------------------------------------------------------------------
(* The formatter engine: JsonEventFormatter::format_event *)

MapEntries(m) ==
    LET keys == IterOrder(DOMAIN m)
    IN [i \in 1..Len(keys) |-> [k |-> keys[i], v |-> m[keys[i]]]]

\* Faulty variant: Rfc3339 is taken for a number format
IsNumberFormat_wide(tf) == tf \in {"Unix", "UnixMillis", "Rfc3339"}

\* matches!(self.timestamp_format, Unix | UnixMillis)
IsNumberFormat(tf) == tf \in {"Unix", "UnixMillis"}

\* event.field_map() as serde writes it: an object of the event's fields under
\* their own names
FieldMap(fields) == Obj(InsertAll(EmptyMap, fields))

\* The event's own fields: flattened through tracing_serde::SerdeMapVisitor,
\* else nested as "fields"
FormatEventFields(cfg, ser, fields) ==
    IF cfg.flatten_fields
    THEN SerializeEntries(ser, fields)
    ELSE SerializeEntry(ser, "fields", FieldMap(fields))

\* One span of the scope: its FormattedFields text is read back and, when it
\* is one JSON object, every member is written at the root
FormatSpanFields(ser, span) ==
    LET data == span.formatted
        obj == FromStr(data)
    IN IF data # <<>> /\ obj.ok
       THEN SerializeEntries(ser, MapEntries(obj.obj))
       ELSE ser

\* event.parent().and_then(|id| ctx.span(id)).or_else(|| ctx.lookup_current()),
\* then scope().from_root(): the chain of the explicit parent if the event
\* names one, else of the current span; ctx is the chain of open spans
EventScope(ev, ctx) ==
    IF ev.parent.some THEN SubSeq(ctx, 1, ev.parent.val) ELSE ctx

RECURSIVE FormatScope(_, _)
FormatScope(ser, chain) ==
    IF chain = <<>> THEN ser
    ELSE FormatScope(FormatSpanFields(ser, Head(chain)), Tail(chain))

\* get::<FormattedFields<N>>() is None for a span of the chain
MissingFormattedFields(chain) == \E i \in 1..Len(chain) : ~chain[i].cached

format_event(cfg, ev, ctx, fault) ==
    LET now == Now
        chain == EventScope(ev, ctx)
        level == SerializeEntry(SerializeMap, cfg.level_name,
                                Str(to_lowercase(ev.meta.level)))
        number == format_number(cfg.timestamp_format, now)
        timestamp ==
            IF IsNumberFormat(cfg.timestamp_format)
            THEN SerializeEntry(level, cfg.timestamp_name, Num(number.value))
            ELSE SerializeEntry(level, cfg.timestamp_name,
                                Str(format_string(cfg.timestamp_format, now)))
        target == SerializeEntry(timestamp, cfg.target_name, Str(ev.meta.target))
        fields == FormatEventFields(cfg, target, ev.fields)
        scope == FormatScope(fields, chain)
        buffer == SerializeEnd(scope)
    IN IF IsNumberFormat(cfg.timestamp_format) /\ number.panic
       THEN [result |-> "panic", written |-> <<>>]
       ELSE IF fault = "serialize_entry"
       THEN [result |-> "error", written |-> <<>>]
       ELSE IF MissingFormattedFields(chain)
       THEN [result |-> "expect", written |-> <<>>]
       ELSE IF fault \in {"end", "from_utf8", "write_str"}
       THEN [result |-> "error", written |-> <<>>]
       ELSE IF fault = "write_str_partial"
       THEN [result |-> "error", written |-> SubSeq(buffer, 1, Len(buffer) - 1)]
       ELSE IF fault = "write_char"
       THEN [result |-> "error", written |-> buffer]
       ELSE [result |-> "ok", written |-> Append(buffer, Newline)]

-----------------------------------------------------------------------------
(* The layer engine: JsonFormattingLayer::on_event *)

\* if *k == "message" { insert(self.message_name, v) } else { insert(k, v) }
RenameKey(cfg, k) == IF k = "message" THEN cfg.message_name ELSE k

Renamed(cfg, entries) ==
    [i \in 1..Len(entries) |-> [k |-> RenameKey(cfg, entries[i].k), v |-> entries[i].v]]

\* Faulty variant: the casing is not consulted
LevelValue_lower(cfg, level) == Str(to_lowercase(level))

\* The level value in the configured casing
LevelValue(cfg, level) ==
    IF cfg.level_value_casing = "Lowercase"
    THEN Str(to_lowercase(level))
    ELSE Str(to_uppercase(level))

\* The timestamp value by format: a number or a string
TimestampValue(tf, now) ==
    IF tf \in {"Unix", "UnixMillis"}
    THEN [panic |-> format_number(tf, now).panic, value |-> Num(format_number(tf, now).value)]
    ELSE [panic |-> FALSE, value |-> Str(format_string(tf, now))]

\* Faulty variant: the file is written whenever the option is on, null when there is none
FileInsert_unchecked(cfg, meta) ==
    IF cfg.file_names
    THEN <<[k |-> "file", v |-> IF meta.file.some THEN meta.file.val ELSE [ty |-> "null", val |-> ""]]>>
    ELSE <<>>

FileInsert(cfg, meta) ==
    IF cfg.file_names /\ meta.file.some
    THEN <<[k |-> "file", v |-> meta.file.val]>> ELSE <<>>

LineInsert(cfg, meta) ==
    IF cfg.line_numbers /\ meta.line.some
    THEN <<[k |-> "line", v |-> meta.line.val]>> ELSE <<>>

\* The event's fields: at the root, or in a map of their own under "fields"
EventInserts(cfg, values) ==
    IF cfg.flatten_fields
    THEN Renamed(cfg, MapEntries(values))
    ELSE <<[k |-> "fields",
            v |-> Obj(InsertAll(EmptyMap, Renamed(cfg, MapEntries(values))))]>>

\* The renamed fields of every span of the scope, root first, the spans with
\* no field left out
RECURSIVE CollectSpans(_, _)
CollectSpans(cfg, chain) ==
    IF chain = <<>> THEN <<>>
    ELSE LET fields == InsertAll(EmptyMap, Renamed(cfg, MapEntries(Head(chain).storage)))
         IN (IF DOMAIN fields # {} THEN <<fields>> ELSE <<>>)
            \o CollectSpans(cfg, Tail(chain))

RECURSIVE FlattenSpans(_, _)
FlattenSpans(cfg, collected) ==
    IF collected = <<>> THEN <<>>
    ELSE Renamed(cfg, MapEntries(Head(collected))) \o FlattenSpans(cfg, Tail(collected))

\* Faulty variant: flatten_spans is not consulted: the spans are always flattened
SpanInserts_flat(cfg, collected) == FlattenSpans(cfg, collected)

SpanInserts(cfg, collected) ==
    IF collected = <<>> THEN <<>>
    ELSE IF cfg.flatten_spans THEN FlattenSpans(cfg, collected)
    ELSE <<[k |-> "spans", v |-> Arr([i \in 1..Len(collected) |-> Obj(collected[i])])]>>

\* _ctx.lookup_current(), then scope().from_root(): the chain of the current
\* span; the event is not consulted
LookupCurrent(ctx) == ctx

on_event(cfg, ev, ctx, fault) ==
    LET values == JsonStorageRecord(EmptyMap, ev.fields)
        chain == LookupCurrent(ctx)
        timestamp == TimestampValue(cfg.timestamp_format, Now)
        inserts ==
            <<[k |-> cfg.level_name, v |-> LevelValue(cfg, ev.meta.level)]>>
            \o <<[k |-> cfg.target_name, v |-> Str(ev.meta.target)]>>
            \o <<[k |-> cfg.timestamp_name, v |-> timestamp.value]>>
            \o FileInsert(cfg, ev.meta)
            \o LineInsert(cfg, ev.meta)
            \o EventInserts(cfg, values)
            \o SpanInserts(cfg, CollectSpans(cfg, chain))
        root == InsertAll(EmptyMap, inserts)
    IN IF timestamp.panic
       THEN [result |-> "panic", inserts |-> <<>>, root |-> EmptyMap, printed |-> <<>>]
       ELSE IF fault \in LayerFaults
       THEN [result |-> "unwrap", inserts |-> inserts, root |-> root, printed |-> <<>>]
       ELSE [result |-> "ok", inserts |-> inserts, root |-> root,
             printed |-> Append(ToStringMap(root), Newline)]

-----------------------------------------------------------------------------
(* The visitor of visitor.rs *)

\* Option<&'static str>: overwrite_message_name
NoName == [some |-> FALSE, val |-> ""]
SomeName(n) == [some |-> TRUE, val |-> n]

\* Result<(), W::Error>: Ok(()), or the n-th fault the map serializer reported
Ok == [ok |-> TRUE, fault |-> 0]
Err(n) == [ok |-> FALSE, fault |-> n]

\* Visitor::new: state Ok(()), over a map serializer that has written nothing.
\* History: calls counts the calls made on the map serializer, first is the
\* first fault it reported with the number of calls at that moment, finished
\* is what finish returned.
VisitorNew(overwrite_message_name) ==
    [ serializer |-> SerializeMap,
      state |-> Ok,
      overwrite_message_name |-> overwrite_message_name,
      calls |-> 0,
      first |-> [result |-> Ok, calls |-> 0],
      finished |-> [done |-> FALSE, result |-> Ok] ]

\* No span store is under concurrent use
NoConc == [active |-> FALSE]

-----------------------------------------------------------------------------
(* The state machine *)

NoEvent == [meta |-> [level |-> "", target |-> "", file |-> None, line |-> None],
            parent |-> NoParent,
            fields |-> <<>>,
            fault |-> NoFault]
NoFmt == [result |-> "none", written |-> <<>>]
NoLay == [result |-> "none", inserts |-> <<>>, root |-> EmptyMap, printed |-> <<>>]

Init ==
    /\ phase = "builder"
    /\ config = DefaultConfig
    /\ calls = <<>>
    /\ spans = <<>>
    /\ nrecords = 0
    /\ event = NoEvent
    /\ fmt = NoFmt
    /\ lay = NoLay
    /\ vis = VisitorNew(NoName)
    /\ conc = NoConc

\* One setter call on the builder
Setter(opt, v, c) ==
    /\ phase = "builder"
    /\ Len(calls) < MaxSetterCalls
    /\ config' = c
    /\ calls' = Append(calls, [opt |-> opt, val |-> v])
    /\ UNCHANGED <<phase, spans, nrecords, event, fmt, lay, vis, conc>>

WithLevelName ==
    \E v \in LevelNames : Setter("level_name", v, with_level_name(config, v))
WithMessageName ==
    \E v \in MessageNames : Setter("message_name", v, with_message_name(config, v))
WithTargetName ==
    \E v \in TargetNames : Setter("target_name", v, with_target_name(config, v))
WithTimestampName ==
    \E v \in TimestampNames : Setter("timestamp_name", v, with_timestamp_name(config, v))
WithTimestampFormat ==
    \E v \in TimestampFormats : Setter("timestamp_format", v, with_timestamp_format(config, v))
WithFlattenFields ==
    \E v \in BOOLEAN : Setter("flatten_fields", v, with_flatten_fields(config, v))
WithLevelValueCasing ==
    \E v \in Casings : Setter("level_value_casing", v, with_level_value_casing(config, v))
WithLineNumbers ==
    \E v \in BOOLEAN : Setter("line_numbers", v, with_line_numbers(config, v))
WithFileNames ==
    \E v \in BOOLEAN : Setter("file_names", v, with_file_names(config, v))
WithFlattenSpans ==
    \E v \in BOOLEAN : Setter("flatten_spans", v, with_flatten_spans(config, v))

\* Builder::layer / Builder::subscriber_builder: the builder is consumed and
\* the engines run with its configuration
Layer ==
    /\ phase = "builder"
    /\ phase' = "active"
    /\ calls' = <<>>
    /\ UNCHANGED <<config, spans, nrecords, event, fmt, lay, vis, conc>>

\* No handler call is in progress: the last line, if any, went to the sink
Idle == phase = "active" /\ fmt.result = "none" /\ lay.result = "none"

\* A span opens as the child of the current span and is entered
OnNewSpan ==
    /\ Idle
    /\ Len(spans) < MaxDepth
    /\ \E names \in SUBSET AttrNames :
         spans' = Append(spans, NewSpan(Fields(names, SpanValue(Len(spans) + 1))))
    /\ UNCHANGED <<phase, config, calls, nrecords, event, fmt, lay, vis, conc>>

\* Values are recorded on an open span
OnRecord ==
    /\ Idle
    /\ nrecords < MaxRecords
    /\ \E i \in {j \in 1..Len(spans) : spans[j].cached},
          names \in (SUBSET AttrNames) \ {{}} :
         spans' = [spans EXCEPT ![i] =
                      RecordSpan(@, Fields(names, RecordValue(i, nrecords + 1)))]
    /\ nrecords' = nrecords + 1
    /\ UNCHANGED <<phase, config, calls, event, fmt, lay, vis, conc>>

\* The parents an event may name: none (a contextual event) or an open span
\* other than the current one (naming the current span gives the chain of a
\* contextual event)
Parents(ctx) == {NoParent} \cup {Parent(i) : i \in 1..(Len(ctx) - 1)}

\* Faulty variant: the event's fields are recorded into the current span
OnEvent_recording ==
    /\ Idle
    /\ spans # <<>>
    /\ \E meta \in Callsites, names \in SUBSET AttrNames :
         LET ev == [meta |-> meta, parent |-> NoParent,
                    fields |-> Fields(names, EventValue), fault |-> NoFault]
         IN /\ event' = ev
            /\ fmt' = format_event(config, ev, spans, NoFault)
            /\ lay' = on_event(config, ev, spans, NoFault)
            /\ spans' = [spans EXCEPT ![Len(spans)] = RecordSpan(@, ev.fields)]
    /\ UNCHANGED <<phase, config, calls, nrecords, vis, conc>>

\* An event fires in the current span, contextual or with an explicit
\* parent; both engines format it
OnEvent ==
    /\ Idle
    /\ \E meta \in Callsites, names \in SUBSET AttrNames, parent \in Parents(spans) :
         LET ev == [meta |-> meta, parent |-> parent,
                    fields |-> Fields(names, EventValue), fault |-> NoFault]
         IN /\ event' = ev
            /\ fmt' = format_event(config, ev, spans, NoFault)
            /\ lay' = on_event(config, ev, spans, NoFault)
    /\ UNCHANGED <<phase, config, calls, spans, nrecords, vis, conc>>

\* The sink takes what the call wrote (io::Write::write on the writer) and
\* the call returns
Write ==
    /\ phase = "active"
    /\ ~Idle
    /\ event' = NoEvent
    /\ fmt' = NoFmt
    /\ lay' = NoLay
    /\ UNCHANGED <<phase, config, calls, spans, nrecords, vis, conc>>

Next ==
    \/ WithLevelName
    \/ WithMessageName
    \/ WithTargetName
    \/ WithTimestampName
    \/ WithTimestampFormat
    \/ WithFlattenFields
    \/ WithLevelValueCasing
    \/ WithLineNumbers
    \/ WithFileNames
    \/ WithFlattenSpans
    \/ Layer
    \/ OnNewSpan
    \/ OnRecord
    \/ OnEvent
    \/ Write

Spec == Init /\ [][Next]_vars

-----------------------------------------------------------------------------
(* Properties *)

\* What a reader of the line gets: the members of the object, a repeated
\* name with its last value
FmtOut == FromStr(fmt.written).obj
LayOut == FromStr(lay.printed).obj

FmtDone == fmt.result = "ok"
LayDone == lay.result = "ok"

\* The positions of text at which a member named k is written
MembersNamed(text, k) == {i \in 1..Len(text) : text[i].t = "entry" /\ text[i].k = k}

\* The text is one object and one newline: an opening brace, members
\* separated by single commas, a closing brace, a newline, and nothing else
IsObjectLine(text) ==
    LET n == Len(text) IN
    /\ n >= 3
    /\ text[1] = LBrace
    /\ text[n - 1] = RBrace
    /\ text[n] = Newline
    /\ (n - 3) = 0 \/ (n - 3) % 2 = 1
    /\ \A i \in 2..(n - 2) :
         IF i % 2 = 0
         THEN text[i].t = "entry" /\ text[i].v.ty \in {"string", "number", "object", "array"}
         ELSE text[i] = Comma

\* C1: a format call that succeeds emits exactly one JSON object followed by
\* exactly one newline, in both engines, for every event, scope chain and
\* configuration.
C1_OneObjectOneNewline ==
    /\ FmtDone => IsObjectLine(fmt.written)
    /\ LayDone => IsObjectLine(lay.printed)

\* C1 witness: an event with fields formatted under two spans, one of them
\* amended by a record call
C1_Witness ==
    /\ FmtDone /\ LayDone
    /\ Len(spans) = 2
    /\ event.fields # <<>>
    /\ \E i \in 1..Len(spans) :
         \E j \in 1..Len(spans[i].formatted) : spans[i].formatted[j] = Space

\* The text a level is rendered to, by casing
LevelText ==
    [ Lowercase |-> [TRACE |-> "trace", DEBUG |-> "debug", INFO |-> "info",
                     WARN |-> "warn", ERROR |-> "error"],
      Uppercase |-> [TRACE |-> "TRACE", DEBUG |-> "DEBUG", INFO |-> "INFO",
                     WARN |-> "WARN", ERROR |-> "ERROR"] ]

\* The JSON type the timestamp has under each format
TimestampType ==
    [ Unix |-> "number", UnixMillis |-> "number", Rfc3339 |-> "string",
      Rfc3339Nanos |-> "string", Custom |-> "string" ]

\* C4: the timestamp is a JSON number under Unix and UnixMillis and a JSON
\* string under Rfc3339, Rfc3339Nanos and a custom pattern, in both engines;
\* no call ends in format_number's unreachable! arms.
C4_TimestampType ==
    /\ fmt.result # "panic"
    /\ lay.result # "panic"
    /\ FmtDone =>
         /\ fmt.written[4].t = "entry"
         /\ fmt.written[4].k = config.timestamp_name
         /\ fmt.written[4].v.ty = TimestampType[config.timestamp_format]
         /\ MembersNamed(fmt.written, config.timestamp_name) = {4}
              => FmtOut[config.timestamp_name].ty = TimestampType[config.timestamp_format]
    /\ LayDone =>
         /\ lay.inserts[3].k = config.timestamp_name
         /\ lay.inserts[3].v.ty = TimestampType[config.timestamp_format]
         /\ {i \in 1..Len(lay.inserts) : lay.inserts[i].k = config.timestamp_name} = {3}
              => LayOut[config.timestamp_name].ty = TimestampType[config.timestamp_format]

\* C4 witness: an event formatted under UnixMillis, its timestamp a number in
\* both outputs
C4_Witness ==
    /\ FmtDone /\ LayDone
    /\ config.timestamp_format = "UnixMillis"
    /\ FmtOut[config.timestamp_name] = Num(Now.millis)
    /\ LayOut[config.timestamp_name] = Num(Now.millis)

\* C5: the level is written under the configured level name; in the layer
\* engine its text is lowercase under the lowercase casing and uppercase under
\* the uppercase casing; the formatter engine, which has no casing option,
\* writes it lowercase.
C5_LevelField ==
    /\ FmtDone =>
         /\ fmt.written[2] = Entry(config.level_name, Str(LevelText["Lowercase"][event.meta.level]))
         /\ MembersNamed(fmt.written, config.level_name) = {2}
              => FmtOut[config.level_name] = Str(LevelText["Lowercase"][event.meta.level])
    /\ LayDone =>
         /\ lay.inserts[1] = [k |-> config.level_name,
                              v |-> Str(LevelText[config.level_value_casing][event.meta.level])]
         /\ {i \in 1..Len(lay.inserts) : lay.inserts[i].k = config.level_name} = {1}
              => LayOut[config.level_name]
                   = Str(LevelText[config.level_value_casing][event.meta.level])

\* C5 witness: level_name "severity" with the uppercase casing gives
\* "severity":"INFO"
C5_Witness ==
    /\ LayDone
    /\ config.level_name = "severity"
    /\ config.level_value_casing = "Uppercase"
    /\ LayOut["severity"] = Str("INFO")

\* C9: in the layer engine the member "file" (resp. "line") is in the output
\* exactly when file_names (resp. line_numbers) is on and the event's metadata
\* has the value; then it is that value, never null.
C9_FileAndLine ==
    LayDone =>
      /\ "file" \in DOMAIN LayOut <=> (config.file_names /\ event.meta.file.some)
      /\ "line" \in DOMAIN LayOut <=> (config.line_numbers /\ event.meta.line.some)
      /\ "file" \in DOMAIN LayOut => LayOut["file"] = event.meta.file.val
      /\ "line" \in DOMAIN LayOut => LayOut["line"] = event.meta.line.val
      /\ \A k \in {"file", "line"} \cap DOMAIN LayOut : LayOut[k].ty # "null"

\* C9 witness: file names are on and the event has a line but no file: no
\* "file" member is written
C9_Witness ==
    /\ LayDone
    /\ config.file_names
    /\ ~event.meta.file.some
    /\ event.meta.line.some
    /\ "file" \notin DOMAIN LayOut

\* The value of the last call for option opt in a sequence of setter calls,
\* the default when there is none
LastValue(cs, opt) ==
    LET at == {i \in 1..Len(cs) : cs[i].opt = opt}
    IN IF at = {} THEN DefaultConfig[opt]
       ELSE cs[CHOOSE i \in at : \A j \in at : j <= i].val

\* The builder's setter for a call
ApplySetter(c, call) ==
    CASE call.opt = "level_name" -> with_level_name(c, call.val)
      [] call.opt = "message_name" -> with_message_name(c, call.val)
      [] call.opt = "target_name" -> with_target_name(c, call.val)
      [] call.opt = "timestamp_name" -> with_timestamp_name(c, call.val)
      [] call.opt = "timestamp_format" -> with_timestamp_format(c, call.val)
      [] call.opt = "flatten_fields" -> with_flatten_fields(c, call.val)
      [] call.opt = "level_value_casing" -> with_level_value_casing(c, call.val)
      [] call.opt = "line_numbers" -> with_line_numbers(c, call.val)
      [] call.opt = "file_names" -> with_file_names(c, call.val)
      [] call.opt = "flatten_spans" -> with_flatten_spans(c, call.val)

RECURSIVE ApplySetters(_, _)
ApplySetters(c, cs) ==
    IF cs = <<>> THEN c ELSE ApplySetters(ApplySetter(c, Head(cs)), Tail(cs))

\* The orders of n calls: the permutations of 1..n
CallOrders(n) ==
    {p \in [1..n -> 1..n] : \A i, j \in 1..n : i # j => p[i] # p[j]}

\* C10: after any sequence of setter calls the configuration holds, for every
\* option, the value of the last call for that option, or the default if
\* there was none; making the same calls in another order that keeps the last
\* call of every option gives the same configuration.
C10_LastSetterWins ==
    phase = "builder" =>
      /\ \A opt \in Options : config[opt] = LastValue(calls, opt)
      /\ \A p \in CallOrders(Len(calls)) :
           LET cs == [i \in 1..Len(calls) |-> calls[p[i]]]
           IN (\A opt \in Options : LastValue(cs, opt) = LastValue(calls, opt))
                => ApplySetters(DefaultConfig, cs) = config

\* C10 (each step): a setter call changes no option but its own.
C10_SetterFrame ==
    [][(phase = "builder" /\ phase' = "builder") =>
         \A opt \in Options :
           calls'[Len(calls')].opt # opt => config'[opt] = config[opt]]_vars

\* C10 witness: one option set twice, to different values, after which the
\* configuration holds the second
C10_Witness ==
    /\ phase = "builder"
    /\ Len(calls) = 2
    /\ calls[1].opt = calls[2].opt
    /\ calls[1].val # calls[2].val
    /\ config[calls[2].opt] = calls[2].val
    /\ config[calls[2].opt] # DefaultConfig[calls[2].opt]

\* C11: a configuration built with no setter call has level name "level",
\* lowercase casing, message name "message", target name "target", timestamp
\* name "timestamp", the RFC 3339 format with seconds, no file name, no line
\* number, and both flattenings on; the two engines' defaults agree on the
\* options they share.
C11_Defaults ==
    (phase = "builder" /\ calls = <<>>) =>
      /\ config.level_name = "level"
      /\ config.level_value_casing = "Lowercase"
      /\ config.message_name = "message"
      /\ config.target_name = "target"
      /\ config.timestamp_name = "timestamp"
      /\ config.timestamp_format = "Rfc3339"
      /\ format_string(config.timestamp_format, Now) = "1970-01-01T00:16:40Z"
      /\ ~config.file_names
      /\ ~config.line_numbers
      /\ config.flatten_fields
      /\ config.flatten_spans
      /\ DOMAIN config = Options
      /\ \A opt \in DOMAIN JsonEventFormatterDefault :
           JsonEventFormatterDefault[opt] = config[opt]

\* C11 witness: the builder right after construction, no setter called
C11_Witness ==
    /\ phase = "builder"
    /\ calls = <<>>
    /\ config = DefaultConfig
    /\ config.timestamp_format = JsonEventFormatterDefault.timestamp_format

-----------------------------------------------------------------------------
(* Properties of the merge of event and scope fields *)

\* The name a field is to appear under: "message" under the configured
\* message name, every other field under its own
OutputName(n) == IF n = "message" THEN config.message_name ELSE n

\* The name a field is looked up under in an engine's output: the formatter
\* engine is read under the field's own name
Key(renamed, n) == IF renamed THEN OutputName(n) ELSE n

\* The names the event carries
EventNames == {event.fields[i].k : i \in 1..Len(event.fields)}

\* Span sp carries name n: a field of that name was written to it, when it
\* opened or by a record call
Carries(sp, n) == \E i \in 1..Len(sp.writes) : sp.writes[i].k = n

\* The value of the most recent write of n to span sp
LastWrite(sp, n) ==
    LET at == {i \in 1..Len(sp.writes) : sp.writes[i].k = n}
    IN sp.writes[CHOOSE i \in at : \A j \in at : j <= i].v

\* The scope of the event: the chain of its explicit parent when it names
\* one, else the chain of the current span
Scope == IF event.parent.some THEN SubSeq(spans, 1, event.parent.val) ELSE spans

\* The spans of the event's scope that carry n
Carriers(n) == {i \in 1..Len(Scope) : Carries(Scope[i], n)}

Deepest(at) == CHOOSE i \in at : \A j \in at : j <= i

\* A value written to a span (the values of spans are 100 and above, below
\* the timestamps)
IsSpanValue(v) == v.ty = "number" /\ v.val >= 100 /\ v.val < Now.secs

\* Span sp was amended: a record call followed its creation
Amended(sp) == \E j \in 1..Len(sp.formatted) : sp.formatted[j] = Space

\* In the object out, the value for name n is v when n is carried by some
\* span of the chain or by the event: the deepest carrier's, else the event's
DeepestWins(out, renamed) ==
    \A n \in AttrNames :
      IF Carriers(n) # {}
      THEN Key(renamed, n) \in DOMAIN out
           /\ out[Key(renamed, n)] = LastWrite(Scope[Deepest(Carriers(n))], n)
      ELSE n \in EventNames => (Key(renamed, n) \in DOMAIN out /\ out[Key(renamed, n)] = EventValue)


\* C2: with flattening on, scope fields are applied after the event's fields
\* and root first: a name carried by the event and by spans has, in the
\* output, the value of the deepest span that carries it.
C2_DeepestScopeWins ==
    /\ (FmtDone /\ config.flatten_fields) => DeepestWins(FmtOut, FALSE)
    /\ (LayDone /\ config.flatten_fields /\ config.flatten_spans)
         => DeepestWins(LayOut, TRUE)

\* No member named "message" in the object, in its "fields" object or in an
\* element of its "spans" array
NoMessageMember(out) ==
    /\ "message" \notin DOMAIN out
    /\ "fields" \in DOMAIN out => "message" \notin DOMAIN out["fields"].val
    /\ "spans" \in DOMAIN out =>
         \A i \in 1..Len(out["spans"].val) : "message" \notin DOMAIN out["spans"].val[i].val

\* C3: when the configured message name is not "message", a field named
\* "message" is written under the configured name and never under "message",
\* whether it comes from the event (flattened or under "fields") or a span.
C3_MessageRenamed ==
    config.message_name # "message" =>
      /\ FmtDone =>
           /\ NoMessageMember(FmtOut)
           /\ ("message" \in EventNames /\ config.flatten_fields)
                => config.message_name \in DOMAIN FmtOut
      /\ LayDone =>
           /\ NoMessageMember(LayOut)
           /\ ("message" \in EventNames /\ config.flatten_fields)
                => config.message_name \in DOMAIN LayOut
           /\ ("message" \in EventNames /\ ~config.flatten_fields)
                => config.message_name \in DOMAIN LayOut["fields"].val

\* The event's fields as the object "fields" is to hold them
NestedEventFields == [k \in {OutputName(n) : n \in EventNames} |-> EventValue]

\* The event's fields in the object out and its text: at the root when
\* flattened; else in one member "fields", none of them at the root
EventFieldsPlaced(out, text, renamed) ==
    IF config.flatten_fields
    THEN \A n \in EventNames : Key(renamed, n) \in DOMAIN out
    ELSE /\ Cardinality(MembersNamed(text, "fields")) = 1
         /\ out["fields"] = Obj(NestedEventFields)
         /\ \A k \in DOMAIN out :
               ~(out[k].ty = EventValue.ty /\ out[k].val = EventValue.val)

\* C6: with event-field flattening on, every event field is a member of the
\* root; with it off, the root has one member "fields", an object of all the
\* event's fields with the message renamed, none of them at the root, and
\* "fields" is {} for an event with no field.
C6_EventFields ==
    /\ FmtDone => EventFieldsPlaced(FmtOut, fmt.written, FALSE)
    /\ LayDone => EventFieldsPlaced(LayOut, lay.printed, TRUE)

\* The fields of span sp under their output names, each with its last value
SpanFields(sp) ==
    LET names == {n \in AttrNames : Carries(sp, n)}
    IN [k \in {OutputName(n) : n \in names} |->
          LastWrite(sp, CHOOSE n \in names : OutputName(n) = k)]

\* The attribute sets of the spans that have fields, root first
RECURSIVE NonEmptySpans(_)
NonEmptySpans(chain) ==
    IF chain = <<>> THEN <<>>
    ELSE (IF Head(chain).writes # <<>> THEN <<Obj(SpanFields(Head(chain)))>> ELSE <<>>)
         \o NonEmptySpans(Tail(chain))

\* The spans are nested in out: no span value at the root, and "spans" is
\* the array of the non-empty attribute sets, absent when there is none
SpansNested(out, chain) ==
    /\ \A k \in DOMAIN out : ~IsSpanValue(out[k])
    /\ IF NonEmptySpans(chain) = <<>>
       THEN "spans" \notin DOMAIN out
       ELSE "spans" \in DOMAIN out /\ out["spans"] = Arr(NonEmptySpans(chain))

LeafShown(out, sp, nested, renamed) ==
    IF nested
    THEN sp.writes # <<>> =>
           /\ "spans" \in DOMAIN out
           /\ out["spans"].val[Len(out["spans"].val)] = Obj(SpanFields(sp))
    ELSE \A n \in AttrNames :
           Carries(sp, n) => (Key(renamed, n) \in DOMAIN out /\ out[Key(renamed, n)] = LastWrite(sp, n))

\* C8: an event formatted in a span shows every field written to the span,
\* at its creation or by a record call, with the value of its last write.
C8_RecordedFieldsShown ==
    Scope # <<>> =>
      /\ FmtDone => LeafShown(FmtOut, Scope[Len(Scope)], FALSE, FALSE)
      /\ LayDone => LeafShown(LayOut, Scope[Len(Scope)], ~config.flatten_spans, TRUE)

-----------------------------------------------------------------------------
(* The scope an event is formatted in *)

\* The depths of the spans whose values the object shows, at the root or in
\* the elements of "spans" (a value written to the span at depth d is
\* 100 * d and up)
SpanDepths(out) ==
    {out[k].val \div 100 : k \in {n \in DOMAIN out : IsSpanValue(out[n])}}
    \cup (IF "spans" \in DOMAIN out
          THEN UNION {{out["spans"].val[i].val[k].val \div 100 :
                         k \in DOMAIN out["spans"].val[i].val} :
                      i \in 1..Len(out["spans"].val)}
          ELSE {})

\* The object shows fields of the event's scope alone, and those of the
\* scope's leaf when that span has fields and was not amended
ScopeShown(out) ==
    /\ SpanDepths(out) \subseteq 1..Len(Scope)
    /\ (Scope # <<>> /\ Scope[Len(Scope)].writes # <<>> /\ ~Amended(Scope[Len(Scope)]))
         => Len(Scope) \in SpanDepths(out)

\* C12: the chain merged into the record runs from the root to the event's
\* explicit parent when it names one, else to the current span: an event
\* with an explicit parent shows no field of a span below its parent.
C12_ExplicitParentScope ==
    /\ FmtDone => ScopeShown(FmtOut)
    /\ LayDone => ScopeShown(LayOut)

-----------------------------------------------------------------------------
(* Contributions with the same destination name *)

\* Configurations whose names coincide with one another or with a field name:
\* with_level_name("x"), with_timestamp_name("target"),
\* with_timestamp_name("x"), with_message_name("level"), each with the event
\* fields flattened or nested
NameConfigs ==
    { [DefaultConfig EXCEPT !.level_name = l, !.timestamp_name = t,
                            !.message_name = m, !.flatten_fields = f] :
        l \in {"level", "x"}, t \in {"timestamp", "target", "x"},
        m \in {"message", "level"}, f \in BOOLEAN }

\* The engines start on one of these configurations
InitNames ==
    /\ phase = "active"
    /\ config \in NameConfigs
    /\ calls = <<>>
    /\ spans = <<>>
    /\ nrecords = 0
    /\ event = NoEvent
    /\ fmt = NoFmt
    /\ lay = NoLay
    /\ vis = VisitorNew(NoName)
    /\ conc = NoConc

NextNames ==
    \/ OnNewSpan
    \/ OnRecord
    \/ OnEvent
    \/ Write

SpecNames == InitNames /\ [][NextNames]_vars

\* Two JSON values are the same
SameValue(a, b) == a.ty = b.ty /\ a.val = b.val

\* The fields written to the spans of a chain, root first, in the order of
\* the writes
RECURSIVE ScopeWrites(_)
ScopeWrites(chain) ==
    IF chain = <<>> THEN <<>> ELSE Head(chain).writes \o ScopeWrites(Tail(chain))

\* The root object the stated order gives: level, timestamp, target, then
\* the event's fields when they are flattened, then the fields of the spans
\* of the event's scope when they are flattened, every one under its output
\* name, a later contribution replacing an earlier one of the same name
StatedRoot(flatEvent, flatSpans) ==
    InsertAll(EmptyMap,
        << [k |-> config.level_name,
            v |-> Str(LevelText[config.level_value_casing][event.meta.level])],
           [k |-> config.timestamp_name,
            v |-> Str(format_string(config.timestamp_format, Now))],
           [k |-> config.target_name, v |-> Str(event.meta.target)] >>
        \o (IF flatEvent THEN Renamed(config, event.fields) ELSE <<>>)
        \o (IF flatSpans THEN Renamed(config, ScopeWrites(Scope)) ELSE <<>>))

\* The names of the fixed metadata fields
MetaNames == {config.level_name, config.timestamp_name, config.target_name}

\* Under every metadata name the object has the value the stated order gives
LaterWins(out, stated) ==
    \A k \in MetaNames : k \in DOMAIN out /\ SameValue(out[k], stated[k])

\* C13: contributions are applied in the order level, timestamp, target,
\* file, line, event fields, scopes; when a later one has the destination
\* name of an earlier metadata field, the output has the later value.
C13_LaterContributionWins ==
    /\ FmtDone => LaterWins(FmtOut, StatedRoot(config.flatten_fields, TRUE))
    /\ LayDone => LaterWins(LayOut, StatedRoot(config.flatten_fields, config.flatten_spans))

-----------------------------------------------------------------------------
(* The visitor: Visitor of visitor.rs over a map serializer that may fault *)

MaxVisits == 2

\* The Visit callbacks of the visitor, one per kind of value
RecordKinds == {"f64", "i64", "u64", "i128", "u128", "bool", "str", "error", "debug"}

\* The JSON value a callback hands to serialize_entry: a number, a boolean or
\* a string; record_error passes value.to_string(), record_debug passes
\* format!("{:?}", value)
VisitValue(kind) ==
    CASE kind = "f64" -> Num(2)
      [] kind = "i64" -> Num(0 - 3)
      [] kind = "u64" -> Num(4)
      [] kind = "i128" -> Num(0 - 5)
      [] kind = "u128" -> Num(6)
      [] kind = "bool" -> [ty |-> "bool", val |-> TRUE]
      [] kind = "str" -> Str("text")
      [] kind = "error" -> Str("connection reset")
      [] kind = "debug" -> Str("Some(1)")

\* Visitor::serialize_entry: one call on the map serializer, under the
\* overwrite name for the key "message"; the result is the serializer's. The
\* visitor's state is neither read nor written. faulty: the serializer
\* reports a fault for this entry.
serialize_entry(v, key, value, faulty) ==
    LET name == IF v.overwrite_message_name.some /\ key = "message"
                THEN v.overwrite_message_name.val ELSE key
        n == v.calls + 1
    IN [ visitor |->
           [v EXCEPT !.serializer = IF faulty THEN @ ELSE SerializeEntry(@, name, value),
                     !.calls = n,
                     !.first = IF faulty /\ @.result.ok
                               THEN [result |-> Err(n), calls |-> n] ELSE @],
         result |-> IF faulty THEN Err(n) ELSE Ok ]

\* record_f64 ... record_debug: if self.state.is_ok() { self.state =
\* self.serialize_entry(field.name(), value) }
record(v, kind, field, faulty) ==
    IF v.state.ok
    THEN LET r == serialize_entry(v, field, VisitValue(kind), faulty)
         IN [r.visitor EXCEPT !.state = r.result]
    ELSE v

\* Visitor::finish: self.state
finish(v) == v.state

\* A visitor is made, with or without an overwrite name for "message"
InitVisitor ==
    /\ phase = "builder"
    /\ config = DefaultConfig
    /\ calls = <<>>
    /\ spans = <<>>
    /\ nrecords = 0
    /\ event = NoEvent
    /\ fmt = NoFmt
    /\ lay = NoLay
    /\ vis \in {VisitorNew(NoName), VisitorNew(SomeName("msg"))}
    /\ conc = NoConc

\* A Visit callback runs (a span or an event records a field into the visitor)
VisitorRecord ==
    /\ ~vis.finished.done
    /\ vis.calls < MaxVisits
    /\ \E kind \in RecordKinds, field \in AttrNames, faulty \in BOOLEAN :
         vis' = record(vis, kind, field, faulty)
    /\ UNCHANGED <<phase, config, calls, spans, nrecords, event, fmt, lay, conc>>

\* The owner of the visitor calls its public serialize_entry
VisitorSerializeEntry ==
    /\ ~vis.finished.done
    /\ vis.calls < MaxVisits
    /\ \E kind \in {"u64", "str"}, key \in AttrNames, faulty \in BOOLEAN :
         vis' = serialize_entry(vis, key, VisitValue(kind), faulty).visitor
    /\ UNCHANGED <<phase, config, calls, spans, nrecords, event, fmt, lay, conc>>

\* The owner calls finish, which consumes the visitor
VisitorFinish ==
    /\ ~vis.finished.done
    /\ vis' = [vis EXCEPT !.finished = [done |-> TRUE, result |-> finish(vis)]]
    /\ UNCHANGED <<phase, config, calls, spans, nrecords, event, fmt, lay, conc>>

NextVisitor ==
    \/ VisitorRecord
    \/ VisitorSerializeEntry
    \/ VisitorFinish

SpecVisitor == InitVisitor /\ [][NextVisitor]_vars

\* C14: once the map serializer has reported a fault for an entry, the
\* visitor makes no further call on it, through a record_* callback or
\* through serialize_entry, and finish returns that first fault; finish never
\* returns Ok after a failed write.
C14_VisitorHaltsOnFault ==
    /\ ~vis.first.result.ok => vis.calls = vis.first.calls
    /\ (vis.finished.done /\ ~vis.first.result.ok)
         => vis.finished.result = vis.first.result

-----------------------------------------------------------------------------
(* Calls that fail: faults of the serializer and the writer, spans without
   a store *)

\* The engines run flattened (the default) or with fields and spans nested
FaultConfigs ==
    { DefaultConfig,
      [DefaultConfig EXCEPT !.flatten_fields = FALSE, !.flatten_spans = FALSE] }

InitFaults ==
    /\ phase = "active"
    /\ config \in FaultConfigs
    /\ calls = <<>>
    /\ spans = <<>>
    /\ nrecords = 0
    /\ event = NoEvent
    /\ fmt = NoFmt
    /\ lay = NoLay
    /\ vis = VisitorNew(NoName)
    /\ conc = NoConc

\* A span opens and is entered, but no store is attached to it
OnNewSpanNoStore ==
    /\ Idle
    /\ Len(spans) < MaxDepth
    /\ spans' = Append(spans, NewSpanNoStore(Fields({"x"}, SpanValue(Len(spans) + 1))))
    /\ UNCHANGED <<phase, config, calls, nrecords, event, fmt, lay, vis, conc>>

\* The callsite of the events formatted under a fault
FaultCallsite == [level |-> "INFO", target |-> "app", file |-> Some(Str("main.rs")),
                  line |-> Some(Num(17))]

\* An event fires and a step of the call fails
OnEventFault ==
    /\ Idle
    /\ \E names \in SUBSET AttrNames, parent \in Parents(spans),
          fault \in FormatterFaults \cup LayerFaults :
         LET ev == [meta |-> FaultCallsite, parent |-> parent,
                    fields |-> Fields(names, EventValue), fault |-> fault]
         IN /\ event' = ev
            /\ fmt' = format_event(config, ev, spans, fault)
            /\ lay' = on_event(config, ev, spans, fault)
    /\ UNCHANGED <<phase, config, calls, spans, nrecords, vis, conc>>

NextFaults ==
    \/ OnNewSpan
    \/ OnNewSpanNoStore
    \/ OnRecord
    \/ OnEvent
    \/ OnEventFault
    \/ Write

SpecFaults == InitFaults /\ [][NextFaults]_vars

\* A call is in progress
InCall == phase = "active" /\ ~Idle

\* C15: if a step of a format call fails (entry serialization, end of the
\* map, UTF-8 validation, a write to the writer), the call returns an error
\* and the output has received nothing for the event: no truncated object,
\* no complete object without its newline.
C15_FailedCallWritesNothing ==
    /\ (InCall /\ event.fault \in FormatterFaults)
         => (fmt.result = "error" /\ fmt.written = <<>>)
    /\ (InCall /\ event.fault \in LayerFaults)
         => (lay.result = "error" /\ lay.printed = <<>>)

\* C16: when a span of the event's scope has no store attached, the call is
\* aborted and returns an error; it neither panics nor emits a record that
\* leaves the span out.
C16_MissingStoreIsAnError ==
    (InCall /\ MissingFormattedFields(Scope)) =>
      /\ fmt.result = "error" /\ fmt.written = <<>>
      /\ lay.result = "error" /\ lay.printed = <<>>

\* C17: a format call, successful or not, leaves every span's store as it
\* was and keeps nothing of the event: what a call produces is a function of
\* the configuration, the event (with the fault raised in it) and the
\* stores at that moment, whatever calls came before, and when it returns
\* nothing of it is left.
C17_FormatCallFrame ==
    [][ /\ (phase' = "active" /\ (fmt'.result # "none" \/ lay'.result # "none"))
            => /\ fmt' = format_event(config', event', spans', event'.fault)
               /\ lay' = on_event(config', event', spans', event'.fault)
        /\ (Idle /\ (fmt'.result # "none" \/ lay'.result # "none"))
            => (spans' = spans /\ config' = config)
        /\ InCall
            => (spans' = spans /\ config' = config
                /\ event' = NoEvent /\ fmt' = NoFmt /\ lay' = NoLay) ]_vars

\* C17 witness: a call that failed with an error under a span that holds
\* recorded fields, after which the span's stores still hold them
C17_Witness ==
    /\ InCall
    /\ fmt.result = "error"
    /\ event.fields # <<>>
    /\ spans # <<>>
    /\ Amended(spans[Len(spans)])
    /\ \A i \in 1..Len(spans) :
         spans[i].storage = InsertAll(EmptyMap, spans[i].writes)

-----------------------------------------------------------------------------
(* Concurrency: on_record on a span while on_event calls read the span *)

MaxFormatters == 2
MaxConcRecords == 2

Formatters == 1..MaxFormatters

\* A guard that is granted whatever the state of the extensions
CanRead_unguarded(lock) == TRUE

\* span.extensions(): the read guard on the span's extensions is granted
\* while no writer holds them
CanRead(lock) == ~lock.writer

\* span.extensions_mut(): the write guard is granted while nobody holds them
CanWrite(lock) == ~lock.writer /\ lock.readers = 0

\* An on_event call that has not looked at the span yet
FormatterStart == [pc |-> "start", fields |-> EmptyMap, seen |-> 0, printed |-> EmptyMap]

\* A span created with x by on_new_span, its extensions unlocked, no call
\* running. History: versions is the store as every completed call left it;
\* seen is the number of versions at the time a formatter took the guard.
InitLocks ==
    /\ phase = "active"
    /\ config = DefaultConfig
    /\ calls = <<>>
    /\ spans = <<>>
    /\ nrecords = 0
    /\ event = NoEvent
    /\ fmt = NoFmt
    /\ lay = NoLay
    /\ vis = VisitorNew(NoName)
    /\ conc = [ active |-> TRUE,
                storage |-> JsonStorageRecord(EmptyMap, Fields({"x"}, SpanValue(1))),
                lock |-> [writer |-> FALSE, readers |-> 0],
                rec |-> [pc |-> "idle", todo |-> <<>>, n |-> 0],
                fmts |-> [t \in Formatters |-> FormatterStart],
                versions |-> <<JsonStorageRecord(EmptyMap, Fields({"x"}, SpanValue(1)))>> ]

ConcFrame == UNCHANGED <<phase, config, calls, spans, nrecords, event, fmt, lay, vis>>

\* on_record: let mut extensions = span.extensions_mut()
RecordLock ==
    /\ conc.active
    /\ conc.rec.pc = "idle"
    /\ conc.rec.n < MaxConcRecords
    /\ CanWrite(conc.lock)
    /\ conc' = [conc EXCEPT !.lock.writer = TRUE,
                            !.rec.pc = "writing",
                            !.rec.todo = Fields(AttrNames, RecordValue(1, conc.rec.n + 1))]
    /\ ConcFrame

\* on_record: values.record(visitor) inserts the fields one after another
RecordWrite ==
    /\ conc.active
    /\ conc.rec.pc = "writing"
    /\ conc.rec.todo # <<>>
    /\ conc' = [conc EXCEPT !.storage = JsonStorageRecord(@, <<Head(conc.rec.todo)>>),
                            !.rec.todo = Tail(@)]
    /\ ConcFrame

\* on_record returns: the guard is dropped
RecordUnlock ==
    /\ conc.active
    /\ conc.rec.pc = "writing"
    /\ conc.rec.todo = <<>>
    /\ conc' = [conc EXCEPT !.lock.writer = FALSE,
                            !.rec.pc = "idle",
                            !.rec.n = @ + 1,
                            !.versions = Append(@, conc.storage)]
    /\ ConcFrame

\* on_event: let ext = span.extensions()
EventLock(t) ==
    /\ conc.active
    /\ conc.fmts[t].pc = "start"
    /\ CanRead(conc.lock)
    /\ conc' = [conc EXCEPT !.lock.readers = @ + 1,
                            !.fmts[t].pc = "reading",
                            !.fmts[t].seen = Len(conc.versions)]
    /\ ConcFrame

\* on_event: values().iter().for_each(..): one field of the store is cloned
\* into the call's own map, under its output name
EventRead(t) ==
    /\ conc.active
    /\ conc.fmts[t].pc = "reading"
    /\ \E k \in DOMAIN conc.storage :
         /\ RenameKey(config, k) \notin DOMAIN conc.fmts[t].fields
         /\ conc' = [conc EXCEPT !.fmts[t].fields =
                         MapInsert(@, RenameKey(config, k), conc.storage[k])]
    /\ ConcFrame

\* on_event: every field was cloned; ext goes out of scope
EventUnlock(t) ==
    /\ conc.active
    /\ conc.fmts[t].pc = "reading"
    /\ \A k \in DOMAIN conc.storage : RenameKey(config, k) \in DOMAIN conc.fmts[t].fields
    /\ conc' = [conc EXCEPT !.lock.readers = @ - 1,
                            !.fmts[t].pc = "copied"]
    /\ ConcFrame

\* on_event: the record is built from the call's map and printed
EventPrint(t) ==
    /\ conc.active
    /\ conc.fmts[t].pc = "copied"
    /\ conc' = [conc EXCEPT !.fmts[t].pc = "done",
                            !.fmts[t].printed = conc.fmts[t].fields]
    /\ ConcFrame

NextLocks ==
    \/ RecordLock
    \/ RecordWrite
    \/ RecordUnlock
    \/ \E t \in Formatters : EventLock(t)
    \/ \E t \in Formatters : EventRead(t)
    \/ \E t \in Formatters : EventUnlock(t)
    \/ \E t \in Formatters : EventPrint(t)

SpecLocks == InitLocks /\ [][NextLocks]_vars

\* The fields of a store under their output names
StoreFields(storage) == InsertAll(EmptyMap, Renamed(config, MapEntries(storage)))

\* C18: a format call running while record calls run on the span sees the
\* span's fields as a completed call left them, entirely before or entirely
\* after each record call, never a half-written set; a record call that
\* starts after the format call read the span does not change what it
\* prints.
C18_RecordAtomicForReaders ==
    conc.active =>
      \A t \in Formatters :
        /\ conc.fmts[t].pc \in {"copied", "done"}
             => conc.fmts[t].fields = StoreFields(conc.versions[conc.fmts[t].seen])
        /\ conc.fmts[t].pc = "done"
             => conc.fmts[t].printed = StoreFields(conc.versions[conc.fmts[t].seen])

\* C18 witness: a format call read the span between two record calls and
\* printed after the second one: it shows the fields as the first left them
C18_Witness ==
    /\ conc.active
    /\ conc.rec.n = 2
    /\ \E t \in Formatters :
         /\ conc.fmts[t].pc = "done"
         /\ conc.fmts[t].seen = 2
         /\ conc.fmts[t].printed = StoreFields(conc.versions[2])
         /\ conc.fmts[t].printed # StoreFields(conc.storage)

-----------------------------------------------------------------------------
(* Member names of an emitted record *)

\* The names of the root members of a text
RootNames(text) == {text[i].k : i \in {j \in 1..Len(text) : text[j].t = "entry"}}

\* Every root member name of the text occurs once
NoDuplicateMembers(text) ==
    \A k \in RootNames(text) : Cardinality(MembersNamed(text, k)) = 1

\* C19: in every emitted record each name occurs at most once as a member of
\* the root object, also when metadata, event fields and spans contribute
\* the same name.
C19_NoDuplicateMembers ==
    /\ fmt.result = "ok" => NoDuplicateMembers(fmt.written)
    /\ lay.result = "ok" => NoDuplicateMembers(lay.printed)

====
